---- MODULE Spec2Model ----
(***************************************************************************)
(* Model of the data-drift detection engine                                *)
(* (components/drift-detection/drift_detector.py): the DriftDetector, its  *)
(* reference profile, the per-feature analysis, the report synthesis and   *)
(* the Prometheus gauges and counter it updates.                           *)
(*                                                                         *)
(* Encoding.  A cell of a DataFrame is a natural number, or NA for a       *)
(* missing value (NaN / None); the values of an object column are category *)
(* codes.  A float is a fixed-point integer in units of 1/Scale, or NaN.   *)
(* A Python list that is shared by reference lives in `heap` and is named  *)
(* by its address.                                                         *)
(***************************************************************************)
EXTENDS Integers, Sequences, FiniteSets, TLC

\* ------------------------------------------------------------------------
\* Fixed-point arithmetic
\* ------------------------------------------------------------------------

\* One unit of a float is 1/Scale.
Scale == 10 * 10 * 10

\* A missing cell of a DataFrame (NaN / None).
NA == 0 - 1

\* A cell of an object column that holds a list, an object that cannot be
\* hashed.
Unhashable == 0 - 2

\* The float NaN, a value no computation of the model produces otherwise.
NaN == 0 - (Scale * Scale)

\* ln(2) in fixed point.
Ln2 == (693 * Scale) \div 1000

Abs(x) == IF x < 0 THEN 0 - x ELSE x

MinOf(a, b) == IF a < b THEN a ELSE b

MaxOf(a, b) == IF a > b THEN a ELSE b

RECURSIVE SumSeq(_)
SumSeq(s) == IF s = <<>> THEN 0 ELSE Head(s) + SumSeq(Tail(s))

RECURSIVE MinSeq(_)
MinSeq(s) == IF Len(s) = 1 THEN s[1] ELSE MinOf(Head(s), MinSeq(Tail(s)))

RECURSIVE MaxSeq(_)
MaxSeq(s) == IF Len(s) = 1 THEN s[1] ELSE MaxOf(Head(s), MaxSeq(Tail(s)))

Range(s) == {s[i] : i \in 1..Len(s)}

\* Number of elements of s equal to v.
Count(s, v) == Cardinality({i \in 1..Len(s) : s[i] = v})

\* Floor of the square root, by bisection on lo <= r < hi.
RECURSIVE ISqrtIn(_, _, _)
ISqrtIn(v, lo, hi) ==
    IF hi - lo <= 1 THEN lo
    ELSE LET mid == (lo + hi) \div 2
         IN  IF mid * mid <= v THEN ISqrtIn(v, mid, hi) ELSE ISqrtIn(v, lo, mid)

ISqrt(v) == ISqrtIn(v, 0, MinOf(v, 46000) + 1)

\* sqrt of a fixed-point float, NaN for NaN.
FSqrt(x) == IF x = NaN THEN NaN ELSE ISqrt(MaxOf(x, 0) * Scale)

\* Scale * atanh-series value of ln(a/b) for 1/2 <= a/b <= 2.
LnSeries(a, b) ==
    LET z  == ((a - b) * Scale) \div (a + b)
        z2 == (z * z) \div Scale
        t3 == (z * z2) \div Scale
        t5 == (t3 * z2) \div Scale
        t7 == (t5 * z2) \div Scale
    IN  2 * (z + t3 \div 3 + t5 \div 5 + t7 \div 7)

\* Scale * ln(a/b) for integers a, b > 0.
RECURSIVE Ln(_, _)
Ln(a, b) ==
    IF a > 2 * b THEN Ln2 + Ln(a, 2 * b)
    ELSE IF b > 2 * a THEN Ln(2 * a, b) - Ln2
    ELSE LnSeries(a, b)

\* Float addition and the comparison >=, with IEEE NaN rules.
FAdd(x, y) == IF x = NaN \/ y = NaN THEN NaN ELSE x + y

FGe(x, y) == x # NaN /\ y # NaN /\ x >= y

FGt(x, y) == x # NaN /\ y # NaN /\ x > y

\* x / n for a float x and a positive integer n.
FDivInt(x, n) == IF x = NaN THEN NaN ELSE x \div n

\* ------------------------------------------------------------------------
\* DataFrames (pandas), arrays (numpy) and the scipy tests the detector calls
\* ------------------------------------------------------------------------

\* A DataFrame: its column index (ordered), each column's dtype ("float64" or
\* "object") and each column's cells.
DataFrame(columns, dtype, values) ==
    [columns |-> columns, dtype |-> dtype, values |-> values]

\* Series.dropna(): the cells that are not missing, in order.
dropna(series) == SelectSeq(series, LAMBDA v : v # NA)

\* `col in data.columns`
HasColumn(data, col) == col \in Range(data.columns)

\* Series.mean(): NaN for an empty series.
mean(s) == IF s = <<>> THEN NaN ELSE (SumSeq(s) * Scale) \div Len(s)

\* Series.std(): the sample standard deviation (ddof = 1), NaN below 2 values.
std(s) ==
    IF Len(s) < 2 THEN NaN
    ELSE LET n   == Len(s)
             sm  == SumSeq(s)
             dev == SumSeq([i \in 1..n |-> (n * s[i] - sm) * (n * s[i] - sm)])
         IN  ISqrt(((dev * Scale) \div (n * n * (n - 1))) * Scale)

\* Series.quantile(q) for q = k/4, linear interpolation; NaN for an empty series.
quantile(s, k) ==
    IF s = <<>> THEN NaN
    ELSE LET srt == SortSeq(s, LAMBDA a, b : a < b)
             pos == k * (Len(s) - 1)
             lo  == pos \div 4 + 1
             hi  == MinOf(lo + 1, Len(s))
         IN  srt[lo] * Scale + ((pos % 4) * (srt[hi] - srt[lo]) * Scale) \div 4

\* The bin of x among nb equal-width bins over [lo2/2, hi2/2] (numpy: half-open
\* bins, the last one closed; with a zero-width range every value falls in the
\* last bin).
BinOf(x, lo2, hi2, nb) ==
    IF hi2 = lo2 THEN nb
    ELSE MinOf(nb, ((2 * x - lo2) * nb) \div (hi2 - lo2) + 1)

\* np.histogram(a, bins=<edges of nb bins over [lo2/2, hi2/2]>): the counts.
HistCounts(a, lo2, hi2, nb) ==
    [b \in 1..nb |-> Cardinality({i \in 1..Len(a) : BinOf(a[i], lo2, hi2, nb) = b})]

\* np.histogram(a, bins=nb): the range is (0, 1) for an empty array and is
\* widened by 0.5 on both sides when min = max.
histogram(a, nb) ==
    LET lo2 == IF a = <<>> THEN 0
               ELSE IF MinSeq(a) = MaxSeq(a) THEN 2 * MinSeq(a) - 1
               ELSE 2 * MinSeq(a)
        hi2 == IF a = <<>> THEN 2
               ELSE IF MinSeq(a) = MaxSeq(a) THEN 2 * MaxSeq(a) + 1
               ELSE 2 * MaxSeq(a)
    IN  [counts |-> HistCounts(a, lo2, hi2, nb),
         edges  |-> [i \in 1..(nb + 1) |->
                        (lo2 * Scale * nb + (i - 1) * (hi2 - lo2) * Scale) \div (2 * nb)]]

\* Series.value_counts(): the distinct values by descending count, ties in
\* first-seen order.
FirstSeen(s, v) == CHOOSE i \in 1..Len(s) : s[i] = v /\ \A j \in 1..(i - 1) : s[j] # v

unique(s) ==
    LET firsts == {i \in 1..Len(s) : \A j \in 1..(i - 1) : s[j] # s[i]}
        idx    == SortSeq([k \in 1..Cardinality(firsts) |->
                              CHOOSE i \in firsts :
                                  Cardinality({j \in firsts : j < i}) = k - 1],
                          LAMBDA a, b : a < b)
    IN  [k \in 1..Len(idx) |-> s[idx[k]]]

value_counts_index(s) ==
    SortSeq(unique(s),
            LAMBDA a, b : \/ Count(s, a) > Count(s, b)
                          \/ Count(s, a) = Count(s, b) /\ FirstSeen(s, a) < FirstSeen(s, b))

\* scipy.stats.ks_2samp: ValueError on an empty sample; the statistic is the
\* largest distance between the two empirical CDFs, the p-value the exact
\* probability of a distance at least as large (lattice paths that leave the
\* band |i/n - j/m| < d).
KsNumerator(r, c) ==
    LET n == Len(r)
        m == Len(c)
        F(x) == Abs(Cardinality({i \in 1..n : r[i] <= x}) * m
                    - Cardinality({j \in 1..m : c[j] <= x}) * n)
        pts == Range(r) \cup Range(c)
    IN  CHOOSE h \in {F(x) : x \in pts} : \A x \in pts : F(x) <= h

RECURSIVE PathsInside(_, _, _, _, _)
PathsInside(i, j, n, m, h) ==
    IF Abs(i * m - j * n) >= h THEN 0
    ELSE IF i = n /\ j = m THEN 1
    ELSE (IF i < n THEN PathsInside(i + 1, j, n, m, h) ELSE 0)
         + (IF j < m THEN PathsInside(i, j + 1, n, m, h) ELSE 0)

RECURSIVE PathsAll(_, _)
PathsAll(n, m) ==
    IF n = 0 \/ m = 0 THEN 1 ELSE PathsAll(n - 1, m) + PathsAll(n, m - 1)

ks_2samp(r, c) ==
    IF r = <<>> \/ c = <<>> THEN [raised |-> "ValueError"]
    ELSE LET n == Len(r)
             m == Len(c)
             h == KsNumerator(r, c)
         IN  [raised    |-> "none",
              statistic |-> (h * Scale) \div (n * m),
              pvalue    |-> ((PathsAll(n, m) - PathsInside(0, 0, n, m, h)) * Scale)
                                \div PathsAll(n, m)]

\* scipy.stats.chi2.sf(x, df): NaN for df <= 0; otherwise the right tail, read
\* from the table of critical values (x in fixed point) at the levels
\* 0.99, 0.95, 0.90, 0.75, 0.50, 0.25, 0.10, 0.05, 0.01, 0.001.
Chi2Levels == <<990, 950, 900, 750, 500, 250, 100, 50, 10, 1>>

Chi2Critical(df) ==
    IF df = 1 THEN <<1, 4, 16, 102, 455, 1323, 2706, 3841, 6635, 10828>>
    ELSE IF df = 2 THEN <<20, 103, 211, 575, 1386, 2773, 4605, 5991, 9210, 13816>>
    ELSE <<115, 352, 584, 1213, 2366, 4108, 6251, 7815, 11345, 16266>>

chi2_sf(x, df) ==
    IF df <= 0 THEN NaN
    ELSE LET crit   == Chi2Critical(df)
             passed == {i \in 1..Len(crit) : (crit[i] * Scale) \div 1000 <= x}
         IN  IF x = 0 THEN Scale
             ELSE IF passed = {} THEN Scale - 1
             ELSE LET top == CHOOSE i \in passed : \A j \in passed : j <= i
                  IN  IF top = Len(crit) THEN 0
                      ELSE (Chi2Levels[top] * Scale) \div 1000

\* scipy.stats.chisquare(f_obs, f_exp): ValueError unless the two frequency
\* vectors have the same sum; statistic = sum (obs - exp)^2 / exp, p-value =
\* chi2.sf(statistic, k - 1).
chisquare(f_obs, f_exp) ==
    IF SumSeq(f_obs) # SumSeq(f_exp) THEN [raised |-> "ValueError"]
    ELSE LET k    == Len(f_obs)
             stat == SumSeq([i \in 1..k |->
                        ((f_obs[i] - f_exp[i]) * (f_obs[i] - f_exp[i]) * Scale)
                            \div f_exp[i]])
         IN  [raised |-> "none", statistic |-> stat, pvalue |-> chi2_sf(stat, k - 1)]

\* ------------------------------------------------------------------------
\* DriftDetector: configuration and pure methods
\* ------------------------------------------------------------------------

\* DriftDetector.__init__ defaults.
model_name == "default-model"

n_bins == 10

\* self.drift_threshold, self.warning_threshold and self.psi_threshold, as
\* __init__ stored them.
VARIABLE config

\* DriftDetector.__init__(drift_threshold, warning_threshold): the arguments
\* are stored as they come; nothing is compared and nothing is raised.
\* psi_threshold is left at its default, 0.2.
__init__(drift_thr, warning_thr) ==
    [drift_threshold |-> drift_thr, warning_threshold |-> warning_thr,
     psi_threshold |-> Scale \div 5, raised |-> "none"]

\* The defaults: drift_threshold = 0.1, warning_threshold = 0.05.
DefaultConfig == __init__(Scale \div 10, Scale \div 20)

drift_threshold == config.drift_threshold

warning_threshold == config.warning_threshold

\* data.dropna()[col]: the cells of the column in the rows that have no missing
\* value in any column.
ColumnOfCompleteRows(data, col) ==
    LET cells == data.values[col]
        rows  == {i \in 1..Len(cells) :
                     \A c \in Range(data.columns) : data.values[c][i] # NA}
        kept[i \in 0..Len(cells)] ==
            IF i = 0 THEN <<>>
            ELSE IF i \in rows THEN Append(kept[i - 1], cells[i]) ELSE kept[i - 1]
    IN  [dtype |-> data.dtype[col], values |-> kept[Len(cells)]]

\* data[col].dropna(): the column as a Series (dtype and non-missing cells).
Column(data, col) ==
    [dtype |-> data.dtype[col], values |-> dropna(data.values[col])]

_is_numeric(series) == series.dtype = "float64"

\* compute_ks_test: (statistic, p-value) of scipy's two-sample KS test.
compute_ks_test(reference, current) == ks_2samp(reference, current)

\* The proportion of a bin without the smoothing: count / N.
Unsmoothed(count, n) == [num |-> count, den |-> n]

\* Lines 198-199: the proportion of a bin, (count + 1) / (N + n_bins), as a
\* fraction.
Smoothed(count, n) == [num |-> count + 1, den |-> n + n_bins]

\* Lines 198-199 for one sample: the proportions of its bins.
Proportions(hist, n) == [b \in 1..n_bins |-> Smoothed(hist[b], n)]

\* Lines 194-199: the histograms of both samples over n_bins equal-width bins
\* of [lo2/2, hi2/2], and the proportions of their bins.
BinsOver(reference, current, lo2, hi2) ==
    [ref_hist |-> HistCounts(reference, lo2, hi2, n_bins),
     cur_hist |-> HistCounts(current, lo2, hi2, n_bins),
     ref_prop |-> Proportions(HistCounts(reference, lo2, hi2, n_bins), Len(reference)),
     cur_prop |-> Proportions(HistCounts(current, lo2, hi2, n_bins), Len(current))]

\* Lines 189-199: the bins span both samples.
PsiBins(reference, current) ==
    BinsOver(reference, current,
             2 * MinOf(MinSeq(reference), MinSeq(current)),
             2 * MaxOf(MaxSeq(reference), MaxSeq(current)))

\* One term of line 202, (cur - ref) * ln(cur / ref), for the proportions c
\* and r of a bin.
PsiTerm(c, r) ==
    (((c.num * Scale) \div c.den - (r.num * Scale) \div r.den)
        * Ln(c.num * r.den, r.num * c.den)) \div Scale

\* Line 202: the sum of the terms.  A proportion of zero makes a term infinite
\* or undefined, and the sum with it: NaN stands for every value that is not
\* finite.
PsiSum(bins) ==
    IF \E b \in 1..n_bins : \/ bins.ref_prop[b].num = 0 \/ bins.ref_prop[b].den = 0
                             \/ bins.cur_prop[b].num = 0 \/ bins.cur_prop[b].den = 0
    THEN NaN
    ELSE SumSeq([b \in 1..n_bins |-> PsiTerm(bins.cur_prop[b], bins.ref_prop[b])])

\* compute_psi over n_bins equal-width bins spanning both samples, with the
\* proportions smoothed as (count + 1) / (N + n_bins).
compute_psi(reference, current) == PsiSum(PsiBins(reference, current))

\* compute_chi_squared: counts over the union of the categories, each plus 1,
\* given to scipy's chisquare with the reference counts as expected.
\* Series.unique() raises TypeError on a value that cannot be hashed.
compute_chi_squared(reference, current) ==
    LET all_categories == SortSeq(unique(reference \o current), LAMBDA a, b : a < b)
        ref_freq == [i \in 1..Len(all_categories) |-> Count(reference, all_categories[i]) + 1]
        cur_freq == [i \in 1..Len(all_categories) |-> Count(current, all_categories[i]) + 1]
    IN  IF Unhashable \in Range(reference \o current) THEN [raised |-> "TypeError"]
        ELSE chisquare(cur_freq, ref_freq)

\* compute_jensen_shannon: density histograms over the joint range, normalised
\* to probabilities; square root of the Jensen-Shannon divergence (natural
\* log).  A joint range of zero width divides by the zero bin width: NaN.
KLTerm(c, n, oc, on) ==
    IF c = 0 THEN 0
    ELSE (((c * Scale) \div n) * Ln(2 * c * on, c * on + oc * n)) \div Scale

compute_jensen_shannon(reference, current) ==
    LET min_val  == MinOf(MinSeq(reference), MinSeq(current))
        max_val  == MaxOf(MaxSeq(reference), MaxSeq(current))
        ref_hist == HistCounts(reference, 2 * min_val, 2 * max_val, n_bins)
        cur_hist == HistCounts(current, 2 * min_val, 2 * max_val, n_bins)
        rn       == Len(reference)
        cn       == Len(current)
        js_div   == (SumSeq([b \in 1..n_bins |-> KLTerm(ref_hist[b], rn, cur_hist[b], cn)])
                     + SumSeq([b \in 1..n_bins |-> KLTerm(cur_hist[b], cn, ref_hist[b], rn)]))
                        \div 2
    IN  IF min_val = max_val THEN NaN ELSE FSqrt(js_div)

\* One entry of reference_stats, computed from one column (the body of the
\* loop of _compute_reference_statistics); `addr` is the address of the new
\* list of categories.
ColumnStatistics(col_data, addr) ==
    IF _is_numeric(col_data)
    THEN [type      |-> "numeric",
          mean      |-> mean(col_data.values),
          std       |-> std(col_data.values),
          min       |-> IF col_data.values = <<>> THEN NaN ELSE MinSeq(col_data.values) * Scale,
          max       |-> IF col_data.values = <<>> THEN NaN ELSE MaxSeq(col_data.values) * Scale,
          quantiles |-> [k \in 1..3 |-> quantile(col_data.values, k)],
          histogram |-> histogram(col_data.values, n_bins)]
    ELSE [type         |-> "categorical",
          distribution |-> [c \in Range(col_data.values) |->
                               (Count(col_data.values, c) * Scale) \div Len(col_data.values)],
          categories   |-> addr]

\* The tiers decided by psi_threshold.
SeverityByPsiThreshold(drift_score) ==
    IF FGe(drift_score, config.psi_threshold) THEN "critical" ELSE "none"

\* The tiers without the warning tier.
SeverityCriticalOnly(drift_score) ==
    IF FGe(drift_score, drift_threshold) THEN "critical" ELSE "none"

\* The tiers with `>` in place of `>=`.
SeverityStrict(drift_score) ==
    IF FGt(drift_score, drift_threshold) THEN "critical"
    ELSE IF FGt(drift_score, warning_threshold) THEN "warning"
    ELSE "none"

\* The severity tier of a drift score.
Severity(drift_score) ==
    IF FGe(drift_score, drift_threshold) THEN "critical"
    ELSE IF FGe(drift_score, warning_threshold) THEN "warning"
    ELSE "none"

DriftResult(feature, drift_score, ks_statistic, ks_pvalue, psi_score, details) ==
    [feature      |-> feature,
     drift_score  |-> drift_score,
     ks_statistic |-> ks_statistic,
     ks_pvalue    |-> ks_pvalue,
     psi_score    |-> psi_score,
     is_drifted   |-> Severity(drift_score) # "none",
     severity     |-> Severity(drift_score),
     details      |-> details]

\* _analyze_feature, given the entry reference_stats.get(feature_name, {})
\* as a sequence (<<>> for the missing entry).  `fresh` is the address a list
\* created by this call would get.  Returns the exception raised, or the
\* DriftResult and the lists the call created.
AnalyzeNumeric(ref_stats, feature_name, reference, current) ==
    LET ks == compute_ks_test(reference.values, current.values)
    IN  IF reference.dtype # "float64" \/ current.dtype # "float64"
        THEN [raised |-> "TypeError"]
        ELSE IF ks.raised # "none" THEN [raised |-> ks.raised]
        ELSE LET psi         == compute_psi(reference.values, current.values)
                 js_distance == compute_jensen_shannon(reference.values, current.values)
                 drift_score == IF js_distance = NaN THEN NaN
                                ELSE (ks.statistic + js_distance) \div 2
             IN  [raised  |-> "none",
                  created |-> <<>>,
                  result  |-> DriftResult(feature_name, drift_score, ks.statistic,
                                  ks.pvalue, psi,
                                  [reference_mean |-> ref_stats.mean,
                                   current_mean   |-> mean(current.values),
                                   reference_std  |-> ref_stats.std,
                                   current_std    |-> std(current.values),
                                   js_distance    |-> js_distance])]

\* The p-value itself taken as the drift score.
PvalueAsScore(chi_pvalue) == chi_pvalue

\* Line 369: drift_score = 1 - chi_pvalue if chi_pvalue > 0 else 1.0
CategoricalScore(chi_pvalue) == IF FGt(chi_pvalue, 0) THEN Scale - chi_pvalue ELSE Scale

AnalyzeCategorical(ref_stats, feature_name, reference, current, fresh) ==
    LET chi == compute_chi_squared(reference.values, current.values)
    IN  IF chi.raised # "none" THEN [raised |-> chi.raised]
        ELSE IF chi.statistic + Len(reference.values) * Scale = 0
        THEN [raised |-> "ZeroDivisionError"]
        ELSE LET ks_stat     == (chi.statistic * Scale)
                                    \div (chi.statistic + Len(reference.values) * Scale)
                 drift_score == CategoricalScore(chi.pvalue)
                 known       == ref_stats # <<>>
             IN  [raised  |-> "none",
                  created |-> IF known THEN <<>> ELSE << <<>> >>,
                  result  |-> DriftResult(feature_name, drift_score, ks_stat,
                                  chi.pvalue, 0,
                                  [chi_squared_statistic |-> chi.statistic,
                                   chi_squared_pvalue    |-> chi.pvalue,
                                   reference_categories  |->
                                       IF known THEN ref_stats[1].categories ELSE fresh,
                                   current_categories    |-> unique(current.values)])]

_analyze_feature(ref_stats, feature_name, reference, current, fresh) ==
    IF ref_stats # <<>> /\ ref_stats[1].type = "numeric"
    THEN AnalyzeNumeric(ref_stats[1], feature_name, reference, current)
    ELSE AnalyzeCategorical(ref_stats, feature_name, reference, current, fresh)

\* The tier chosen from the number of drifted features.
RecommendationByDrifted(n_drifted, n_features, overall_score) ==
    IF n_drifted > 0
    THEN [tier |-> "CRITICAL", n_drifted |-> n_drifted, n_features |-> n_features,
          drift_percentage |-> (n_drifted * 100 * Scale) \div n_features]
    ELSE [tier |-> "OK", n_features |-> n_features]

\* _generate_recommendation: the tier and the figures the message states.
_generate_recommendation(n_drifted, n_features, overall_score) ==
    LET drift_percentage == IF n_features > 0
                            THEN (n_drifted * 100 * Scale) \div n_features ELSE 0
    IN  IF FGe(overall_score, drift_threshold)
        THEN [tier |-> "CRITICAL", n_drifted |-> n_drifted, n_features |-> n_features,
              drift_percentage |-> drift_percentage]
        ELSE IF FGe(overall_score, warning_threshold)
        THEN [tier |-> "WARNING", n_drifted |-> n_drifted, n_features |-> n_features,
              drift_percentage |-> drift_percentage]
        ELSE [tier |-> "OK", n_features |-> n_features]
\* ------------------------------------------------------------------------
\* Inputs
\* ------------------------------------------------------------------------

\* Number of calls made on the detector in one behaviour.
MaxCalls == 3

RefABC ==
    DataFrame(<<"A", "B", "C">>,
              [A |-> "float64", B |-> "object", C |-> "float64"],
              [A |-> <<0, 1, 2, 3>>, B |-> <<1, 1, 2, NA>>, C |-> <<1, NA, 1, 2>>])

RefCA ==
    DataFrame(<<"C", "A">>,
              [C |-> "float64", A |-> "object"],
              [C |-> <<3, 3, 4, 4>>, A |-> <<1, 2, 2, 2>>])

RefConst ==
    DataFrame(<<"A", "B">>,
              [A |-> "float64", B |-> "object"],
              [A |-> <<2, 2, 2>>, B |-> <<1, 1, 1>>])

RefNoRows ==
    DataFrame(<<"A", "B">>,
              [A |-> "float64", B |-> "object"],
              [A |-> <<>>, B |-> <<>>])

RefNoCols == DataFrame(<<>>, <<>>, <<>>)

ReferenceDatasets == {RefABC, RefCA, RefConst, RefNoRows, RefNoCols}

CurSame ==
    DataFrame(<<"A", "B", "C">>,
              [A |-> "float64", B |-> "object", C |-> "float64"],
              [A |-> <<0, 1, 2, 3>>, B |-> <<1, 1, 2, NA>>, C |-> <<1, NA, 1, 2>>])

CurShift ==
    DataFrame(<<"C", "A">>,
              [C |-> "float64", A |-> "float64"],
              [C |-> <<3, 4, 4, NA>>, A |-> <<2, 3, 3, 3>>])

CurNullA ==
    DataFrame(<<"D", "B", "A">>,
              [D |-> "float64", B |-> "object", A |-> "float64"],
              [D |-> <<5, 5, 5, 5>>, B |-> <<1, 2, 2, NA>>, A |-> <<NA, NA, NA, NA>>])

CurConst ==
    DataFrame(<<"B", "A">>,
              [B |-> "object", A |-> "float64"],
              [B |-> <<1, 1, 1>>, A |-> <<2, 2, 2>>])

CurOther == DataFrame(<<"D">>, [D |-> "float64"], [D |-> <<1, 2>>])

CurrentDatasets == {CurSame, CurShift, CurNullA, CurConst, CurOther}

\* ------------------------------------------------------------------------
\* State
\* ------------------------------------------------------------------------

VARIABLES
    reference_data,   \* self.reference_data: <<>> for None, else <<DataFrame>>
    reference_stats,  \* self.reference_stats: a dict, as the sequence of its items
    heap,             \* the list objects shared by reference: address -> content
    metrics,          \* the Prometheus gauges and counter of this model_name
    returned,         \* the DriftReports the caller holds, oldest first
    given,            \* for each of them, what its detect_drift call was given
    caller_data,      \* the DataFrame object the caller gave set_reference_data last
    pipeline,         \* the pipeline step this process runs, if it runs one
    last,             \* the last call: its name, argument and outcome
    calls,            \* number of calls made so far
    writer,           \* a thread inside set_reference_data
    reader            \* a thread inside detect_drift

detector == <<config, reference_data, reference_stats, heap, metrics, returned, given,
              caller_data, last, calls, writer, reader>>

vars == <<detector, pipeline>>

\* dict.get(key): <<>> when the key is missing, else <<value>>.
DictGet(d, key) ==
    LET hit == SelectSeq(d, LAMBDA item : item.key = key)
    IN  IF hit = <<>> THEN <<>> ELSE <<hit[1].value>>

\* d[key] = value: an existing key keeps its position, a new one goes last.
DictSet(d, key, value) ==
    IF \E i \in 1..Len(d) : d[i].key = key
    THEN [i \in 1..Len(d) |-> IF d[i].key = key THEN [key |-> key, value |-> value] ELSE d[i]]
    ELSE Append(d, [key |-> key, value |-> value])

DictKeys(d) == [i \in 1..Len(d) |-> d[i].key]

\* A gauge that keeps the first value it was given for a feature.
GaugeKeepFirst(g, feature, v) ==
    [k \in DOMAIN g \cup {feature} |-> IF k \in DOMAIN g THEN g[k] ELSE v]

\* Gauge.labels(feature).set(v) and Counter.labels(key).inc().
GaugeSet(g, feature, v) ==
    [k \in DOMAIN g \cup {feature} |-> IF k = feature THEN v ELSE g[k]]

CounterInc(c, key) ==
    [k \in DOMAIN c \cup {key} |-> IF k = key THEN (IF k \in DOMAIN c THEN c[k] + 1 ELSE 1)
                                   ELSE c[k]]

NoMetrics ==
    [DRIFT_SCORE |-> <<>>, KS_STATISTIC |-> <<>>, PSI_SCORE |-> <<>>, DRIFT_DETECTED |-> <<>>]

Idle == [pc |-> "idle"]

\* The process runs the drift detector and no pipeline step.
NoStep == [step |-> "none"]

\* The threshold pairs a detector is constructed with: the defaults, a pair
\* that puts scores on and between the two thresholds, and a pair with
\* warning_threshold above drift_threshold.
Configurations ==
    {DefaultConfig,
     __init__((556 * Scale) \div 1000, Scale \div 2),
     __init__(Scale \div 2, (556 * Scale) \div 1000)}

Init ==
    /\ config \in Configurations
    /\ reference_data = <<>>
    /\ reference_stats = <<>>
    /\ heap = <<>>
    /\ metrics = NoMetrics
    /\ returned = <<>>
    /\ given = <<>>
    /\ caller_data = <<>>
    /\ last = [op |-> "__init__"]
    /\ calls = 0
    /\ writer = Idle
    /\ reader = Idle
    /\ pipeline = NoStep

\* ------------------------------------------------------------------------
\* set_reference_data
\* ------------------------------------------------------------------------

\* One iteration of the loop of _compute_reference_statistics: the entry of
\* column col of data is computed and stored under its name.  value_counts
\* raises TypeError on a value that cannot be hashed, and nothing is stored.
StatsStep(data, col, stats, hp) ==
    LET col_data == Column(data, col)
        entry    == ColumnStatistics(col_data, Len(hp) + 1)
    IN  IF ~_is_numeric(col_data) /\ Unhashable \in Range(col_data.values)
        THEN [reference_stats |-> stats, heap |-> hp, raised |-> "TypeError"]
        ELSE [reference_stats |-> DictSet(stats, col, entry),
              heap            |-> IF _is_numeric(col_data) THEN hp
                                  ELSE Append(hp, value_counts_index(col_data.values)),
              raised          |-> "none"]

RECURSIVE StatsLoop(_, _, _, _)
StatsLoop(data, i, stats, hp) ==
    IF i > Len(data.columns) THEN [reference_stats |-> stats, heap |-> hp, raised |-> "none"]
    ELSE LET step == StatsStep(data, data.columns[i], stats, hp)
         IN  IF step.raised # "none" THEN step
             ELSE StatsLoop(data, i + 1, step.reference_stats, step.heap)

\* _compute_reference_statistics on self.reference_data = data.
_compute_reference_statistics(data, stats, hp) == StatsLoop(data, 1, stats, hp)

\* A DataFrame object: its content, and who holds a reference to it.
CallerObject(data) == [holders |-> {"caller"}, content |-> data]

\* self.reference_data = data: the detector keeps the caller's object.
NoCopy(object) == [holders |-> object.holders \cup {"detector"}, content |-> object.content]

\* data.copy(): a new object with the content of data, held by the detector.
copy(object) == [holders |-> {"detector"}, content |-> object.content]

\* set_reference_data(data): the detector's fields after the call, and the
\* caller's object as the call leaves it.  The copy is bound to
\* self.reference_data (line 121) before the statistics are computed (line
\* 122); an exception of the loop leaves the entries stored so far.
set_reference_data(data, stats, hp) ==
    LET stored   == copy(CallerObject(data))
        computed == _compute_reference_statistics(stored.content, stats, hp)
    IN  [reference_data  |-> <<stored.content>>,
         reference_stats |-> computed.reference_stats,
         heap            |-> computed.heap,
         caller_data     |-> IF "caller" \in stored.holders
                             THEN <<stored>> ELSE <<CallerObject(data)>>,
         raised          |-> computed.raised]

SetReferenceData(data) ==
    /\ calls < MaxCalls
    /\ writer.pc = "idle" /\ reader.pc = "idle"
    /\ LET after == set_reference_data(data, reference_stats, heap)
       IN  /\ reference_data' = after.reference_data
           /\ reference_stats' = after.reference_stats
           /\ heap' = after.heap
           /\ caller_data' = after.caller_data
           /\ last' = [op |-> "set_reference_data", data |-> data, raised |-> after.raised]
    /\ calls' = calls + 1
    /\ UNCHANGED <<pipeline, config, given, metrics, returned, writer, reader>>
\* ------------------------------------------------------------------------
\* detect_drift
\* ------------------------------------------------------------------------

\* The loop's accumulators: the results so far, their running sum, the
\* metrics and the heap as the call has left them, the exception raised (and
\* the feature it was raised at), and the (reference, reference_stats) pairs
\* _analyze_feature was called with.
LoopStart(m, hp) ==
    [feature_results |-> <<>>, total_drift_score |-> 0, metrics |-> m, heap |-> hp,
     raised |-> "none", at |-> "", used |-> <<>>]

\* ReadColumns without `if col not in current_data.columns: continue`.
ReadColumnsNoMembershipCheck(ref, current_data, col) ==
    IF ~HasColumn(current_data, col) THEN [kind |-> "raise", raised |-> "KeyError"]
    ELSE IF ~HasColumn(ref, col) THEN [kind |-> "raise", raised |-> "KeyError"]
    ELSE IF Len(Column(current_data, col).values) = 0 THEN [kind |-> "skip"]
    ELSE [kind    |-> "analyze",
          ref_col |-> Column(ref, col),
          cur_col |-> Column(current_data, col)]

\* ReadColumns without `if len(cur_col) == 0: continue`.
ReadColumnsNoEmptyCheck(ref, current_data, col) ==
    IF ~HasColumn(current_data, col) THEN [kind |-> "skip"]
    ELSE IF ~HasColumn(ref, col) THEN [kind |-> "raise", raised |-> "KeyError"]
    ELSE [kind    |-> "analyze",
          ref_col |-> Column(ref, col),
          cur_col |-> Column(current_data, col)]

\* Lines 289-298: what the iteration for col does before the analysis.
ReadColumns(ref, current_data, col) ==
    IF ~HasColumn(current_data, col) THEN [kind |-> "skip"]
    ELSE IF ~HasColumn(ref, col) THEN [kind |-> "raise", raised |-> "KeyError"]
    ELSE IF Len(Column(current_data, col).values) = 0 THEN [kind |-> "skip"]
    ELSE [kind    |-> "analyze",
          ref_col |-> Column(ref, col),
          cur_col |-> Column(current_data, col)]

\* feature_results.insert(0, result) in place of append.
PrependResult(feature_results, result) == <<result>> \o feature_results

\* feature_results.append(result)
AppendResult(feature_results, result) == Append(feature_results, result)

\* The counter incremented for every result, drifted or not.
UpdateMetricsAlways(m, result) ==
    [DRIFT_SCORE    |-> GaugeSet(m.DRIFT_SCORE, result.feature, result.drift_score),
     KS_STATISTIC   |-> GaugeSet(m.KS_STATISTIC, result.feature, result.ks_statistic),
     PSI_SCORE      |-> GaugeSet(m.PSI_SCORE, result.feature, result.psi_score),
     DRIFT_DETECTED |-> CounterInc(m.DRIFT_DETECTED, <<result.feature, result.severity>>)]

\* Lines 304-314: the three gauges of the feature are set, and the counter of
\* (feature, severity) is incremented for a drifted result.
UpdateMetrics(m, result) ==
    [DRIFT_SCORE    |-> GaugeSet(m.DRIFT_SCORE, result.feature, result.drift_score),
     KS_STATISTIC   |-> GaugeSet(m.KS_STATISTIC, result.feature, result.ks_statistic),
     PSI_SCORE      |-> GaugeSet(m.PSI_SCORE, result.feature, result.psi_score),
     DRIFT_DETECTED |-> IF result.is_drifted
                        THEN CounterInc(m.DRIFT_DETECTED, <<result.feature, result.severity>>)
                        ELSE m.DRIFT_DETECTED]

\* Lines 300-314: the analysis of col and the recording of its result.
AnalyzeAndRecord(acc, stats, col, ref_col, cur_col) ==
    LET ref_stats == DictGet(stats, col)
        a == _analyze_feature(ref_stats, col, ref_col, cur_col, Len(acc.heap) + 1)
    IN  IF a.raised # "none"
        THEN [acc EXCEPT !.raised = a.raised, !.at = col,
                         !.used = Append(acc.used, [feature   |-> col,
                                                    reference |-> ref_col,
                                                    ref_stats |-> ref_stats])]
        ELSE [feature_results   |-> AppendResult(acc.feature_results, a.result),
              total_drift_score |-> FAdd(acc.total_drift_score, a.result.drift_score),
              metrics           |-> UpdateMetrics(acc.metrics, a.result),
              heap              |-> acc.heap \o a.created,
              raised            |-> "none",
              at                |-> "",
              used              |-> Append(acc.used, [feature   |-> col,
                                                      reference |-> ref_col,
                                                      ref_stats |-> ref_stats])]

\* One iteration of the loop of detect_drift (lines 288-314).
LoopBody(acc, ref, stats, current_data, col) ==
    LET rd == ReadColumns(ref, current_data, col)
    IN  IF rd.kind = "skip" THEN acc
        ELSE IF rd.kind = "raise" THEN [acc EXCEPT !.raised = rd.raised, !.at = col]
        ELSE AnalyzeAndRecord(acc, stats, col, rd.ref_col, rd.cur_col)

RECURSIVE DetectLoop(_, _, _, _, _)
DetectLoop(acc, ref, stats, current_data, i) ==
    IF i > Len(ref.columns) \/ acc.raised # "none" THEN acc
    ELSE DetectLoop(LoopBody(acc, ref, stats, current_data, ref.columns[i]),
                    ref, stats, current_data, i + 1)

\* n_drifted read off the label sets of the DRIFT_DETECTED counter as well.
CountDriftedWithCounter(feature_results) ==
    Cardinality({i \in 1..Len(feature_results) : feature_results[i].is_drifted})
        + Cardinality(DOMAIN metrics.DRIFT_DETECTED)

\* n_drifted counting every result.
CountDriftedAll(feature_results) == Len(feature_results)

\* overall_score without the division.
OverallScoreUndivided(total_drift_score, n_features) == total_drift_score

\* Lines 317-319.
CountDrifted(feature_results) ==
    Cardinality({i \in 1..Len(feature_results) : feature_results[i].is_drifted})

OverallScore(total_drift_score, n_features) ==
    IF n_features > 0 THEN FDivInt(total_drift_score, n_features) ELSE 0

\* Lines 316-332: the report built from the accumulators.
DriftReport(acc, now) ==
    LET n_features    == Len(acc.feature_results)
        n_drifted     == CountDrifted(acc.feature_results)
        overall_score == OverallScore(acc.total_drift_score, n_features)
    IN  [model_name          |-> model_name,
         timestamp           |-> now,
         features_analyzed   |-> n_features,
         features_drifted    |-> n_drifted,
         overall_drift_score |-> overall_score,
         feature_results     |-> acc.feature_results,
         recommendation      |-> _generate_recommendation(n_drifted, n_features,
                                                          overall_score)]

\* detect_drift without the check for a reference: an empty report.
NoReferenceEmptyReport(acc) == acc

\* Lines 282-283: detect_drift before any set_reference_data.
NoReference(acc) == [acc EXCEPT !.raised = "ValueError"]

\* detect_drift(current_data): the accumulators when the call ends, by return
\* (raised = "none") or by an exception.
detect_drift(ref_opt, stats, hp, m, current_data) ==
    IF ref_opt = <<>> THEN NoReference(LoopStart(m, hp))
    ELSE DetectLoop(LoopStart(m, hp), ref_opt[1], stats, current_data, 1)

\* What a detect_drift call that returned a report was given: its argument,
\* and the reference dataset, the profile and the psi_threshold of the
\* detector.
Arguments(current_data, ref_opt, stats) ==
    [data |-> current_data, reference |-> ref_opt, profile |-> stats,
     psi_threshold |-> config.psi_threshold]

\* The outcome of a detect_drift call as `last` records it.
Outcome(current_data, ref_opt, acc, now) ==
    IF acc.raised = "none"
    THEN [op |-> "detect_drift", data |-> current_data, reference |-> ref_opt,
          raised |-> "none", report |-> DriftReport(acc, now), used |-> acc.used]
    ELSE [op |-> "detect_drift", data |-> current_data, reference |-> ref_opt,
          raised |-> acc.raised, at |-> acc.at, used |-> acc.used]

DetectDrift(current_data) ==
    /\ calls < MaxCalls
    /\ writer.pc = "idle" /\ reader.pc = "idle"
    /\ LET acc == detect_drift(reference_data, reference_stats, heap, metrics, current_data)
       IN  /\ metrics' = acc.metrics
           /\ heap' = acc.heap
           /\ last' = Outcome(current_data, reference_data, acc, calls + 1)
           /\ returned' = IF acc.raised = "none"
                          THEN Append(returned, DriftReport(acc, calls + 1))
                          ELSE returned
           /\ given' = IF acc.raised = "none"
                       THEN Append(given, Arguments(current_data, reference_data,
                                                    reference_stats))
                       ELSE given
    /\ calls' = calls + 1
    /\ UNCHANGED <<pipeline, config, caller_data, reference_data, reference_stats, writer, reader>>

\* ------------------------------------------------------------------------
\* The caller
\* ------------------------------------------------------------------------

\* The addresses of the lists a report holds by reference.
ReportLists(report) ==
    {report.feature_results[i].details.reference_categories :
        i \in {j \in 1..Len(report.feature_results) :
                 "reference_categories" \in DOMAIN report.feature_results[j].details}}

\* The caller changes a list of a report it was given:
\* report.feature_results[i].details['reference_categories'].clear()
MutateReport ==
    /\ calls < MaxCalls
    /\ writer.pc = "idle" /\ reader.pc = "idle"
    /\ \E k \in 1..Len(returned) :
         \E addr \in ReportLists(returned[k]) :
            /\ heap[addr] # <<>>
            /\ heap' = [heap EXCEPT ![addr] = <<>>]
            /\ last' = [op |-> "mutate_report", report |-> k, addr |-> addr]
    /\ calls' = calls + 1
    /\ UNCHANGED <<pipeline, config, caller_data, given, reference_data, reference_stats, metrics, returned, writer, reader>>

\* data.drop(data.index, inplace=True): every row of the DataFrame is removed.
DropRows(data) == DataFrame(data.columns, data.dtype, [c \in DOMAIN data.values |-> <<>>])

\* The caller changes, in place, the DataFrame it gave set_reference_data; the
\* detector sees the change if and only if it holds the same object.
ChangeData ==
    /\ calls < MaxCalls
    /\ writer.pc = "idle" /\ reader.pc = "idle"
    /\ caller_data # <<>>
    /\ DropRows(caller_data[1].content) # caller_data[1].content
    /\ caller_data' = <<[caller_data[1] EXCEPT !.content = DropRows(caller_data[1].content)]>>
    /\ reference_data' = IF "detector" \in caller_data[1].holders
                         THEN <<DropRows(caller_data[1].content)>>
                         ELSE reference_data
    /\ last' = [op |-> "change_data"]
    /\ calls' = calls + 1
    /\ UNCHANGED <<pipeline, config, given, reference_stats, heap, metrics, returned, writer, reader>>

Next ==
    \/ \E data \in ReferenceDatasets : SetReferenceData(data)
    \/ \E current_data \in CurrentDatasets : DetectDrift(current_data)
    \/ MutateReport
    \/ ChangeData

Spec == Init /\ [][Next]_vars

\* ------------------------------------------------------------------------
\* detect_drift calls under one reference
\* ------------------------------------------------------------------------

\* A detector as constructed, after its first set_reference_data(data).
InitDetect ==
    \E cfg \in Configurations, data \in ReferenceDatasets :
        LET after == set_reference_data(data, <<>>, <<>>)
        IN  /\ config = cfg
            /\ reference_data = after.reference_data
            /\ reference_stats = after.reference_stats
            /\ heap = after.heap
            /\ metrics = NoMetrics
            /\ returned = <<>>
            /\ given = <<>>
            /\ caller_data = after.caller_data
            /\ last = [op |-> "set_reference_data", data |-> data, raised |-> after.raised]
            /\ calls = 0
            /\ writer = Idle
            /\ reader = Idle
            /\ pipeline = NoStep

\* The detector is only asked for reports.
NextDetect == \E current_data \in CurrentDatasets : DetectDrift(current_data)

SpecDetect == InitDetect /\ [][NextDetect]_vars

\* ------------------------------------------------------------------------
\* set_reference_data and detect_drift as two threads on one detector
\* ------------------------------------------------------------------------

\* Line 121: the writer binds self.reference_data to the copy of data.
W_Assign(data) ==
    /\ calls < MaxCalls
    /\ writer.pc = "idle"
    /\ reference_data' = <<copy(CallerObject(data)).content>>
    /\ caller_data' = <<CallerObject(data)>>
    /\ writer' = [pc |-> "stats", data |-> data, columns |-> data.columns, i |-> 1]
    /\ calls' = calls + 1
    /\ UNCHANGED <<pipeline, config, given, reference_stats, heap, metrics, returned, last, reader>>

\* Lines 128-147: one iteration of the writer's loop.
W_Stats ==
    /\ writer.pc = "stats"
    /\ writer.i <= Len(writer.columns)
    /\ LET step == StatsStep(reference_data[1], writer.columns[writer.i],
                             reference_stats, heap)
       IN  /\ reference_stats' = step.reference_stats
           /\ heap' = step.heap
           /\ writer' = IF step.raised # "none" THEN Idle
                         ELSE [writer EXCEPT !.i = writer.i + 1]
           /\ last' = IF step.raised # "none"
                       THEN [op |-> "set_reference_data", data |-> writer.data,
                             raised |-> step.raised]
                       ELSE last
    /\ UNCHANGED <<pipeline, config, caller_data, given, reference_data, metrics, returned, calls, reader>>

\* Lines 123-124: set_reference_data returns.
W_Return ==
    /\ writer.pc = "stats"
    /\ writer.i > Len(writer.columns)
    /\ writer' = Idle
    /\ last' = [op |-> "set_reference_data", data |-> writer.data, raised |-> "none"]
    /\ UNCHANGED <<pipeline, config, caller_data, given, reference_data, reference_stats, heap, metrics, returned, calls, reader>>

\* The reader's call ends with the accumulators acc.
ReaderEnds(acc) ==
    /\ reader' = Idle
    /\ last' = Outcome(reader.current_data, reader.reference, acc, reader.now)
    /\ returned' = IF acc.raised = "none"
                   THEN Append(returned, DriftReport(acc, reader.now))
                   ELSE returned
    /\ given' = IF acc.raised = "none"
                THEN Append(given, Arguments(reader.current_data, reader.reference,
                                             reference_stats))
                ELSE given

\* Lines 282-288: the check for a reference, and the start of the loop over
\* the columns of the DataFrame that self.reference_data names at this moment.
R_Begin(current_data) ==
    /\ calls < MaxCalls
    /\ reader.pc = "idle"
    /\ calls' = calls + 1
    /\ IF reference_data = <<>>
       THEN /\ last' = Outcome(current_data, reference_data,
                               NoReference(LoopStart(metrics, heap)), calls + 1)
            /\ UNCHANGED reader
       ELSE /\ reader' = [pc |-> "read", current_data |-> current_data,
                          reference |-> reference_data, now |-> calls + 1,
                          columns |-> reference_data[1].columns, i |-> 1,
                          acc |-> LoopStart(metrics, heap), pending |-> <<>>]
            /\ UNCHANGED last
    /\ UNCHANGED <<pipeline, config, caller_data, given, reference_data, reference_stats, heap, metrics, returned, writer>>

\* Lines 289-298: the reader reads self.reference_data[col] and
\* current_data[col].
R_Read ==
    /\ reader.pc = "read"
    /\ reader.i <= Len(reader.columns)
    /\ LET rd == ReadColumns(reference_data[1], reader.current_data,
                             reader.columns[reader.i])
       IN  IF rd.kind = "skip"
           THEN /\ reader' = [reader EXCEPT !.i = reader.i + 1]
                /\ UNCHANGED <<last, returned, given>>
           ELSE IF rd.kind = "raise"
           THEN ReaderEnds([reader.acc EXCEPT !.raised = rd.raised,
                                              !.at = reader.columns[reader.i]])
           ELSE /\ reader' = [reader EXCEPT !.pc = "analyze", !.pending = <<rd>>]
                /\ UNCHANGED <<last, returned, given>>
    /\ UNCHANGED <<pipeline, config, caller_data, reference_data, reference_stats, heap, metrics, calls, writer>>

\* Lines 300-314: _analyze_feature reads self.reference_stats; the result is
\* recorded and the metrics are updated.
R_Analyze ==
    /\ reader.pc = "analyze"
    /\ LET acc == AnalyzeAndRecord([reader.acc EXCEPT !.metrics = metrics, !.heap = heap],
                                   reference_stats, reader.columns[reader.i],
                                   reader.pending[1].ref_col, reader.pending[1].cur_col)
       IN  /\ metrics' = acc.metrics
           /\ heap' = acc.heap
           /\ IF acc.raised # "none"
              THEN ReaderEnds(acc)
              ELSE /\ reader' = [reader EXCEPT !.pc = "read", !.i = reader.i + 1,
                                                !.acc = acc, !.pending = <<>>]
                   /\ UNCHANGED <<last, returned, given>>
    /\ UNCHANGED <<pipeline, config, caller_data, reference_data, reference_stats, calls, writer>>

\* Lines 316-332: detect_drift returns its report.
R_Return ==
    /\ reader.pc = "read"
    /\ reader.i > Len(reader.columns)
    /\ ReaderEnds(reader.acc)
    /\ UNCHANGED <<pipeline, config, caller_data, reference_data, reference_stats, heap, metrics, calls, writer>>

NextConc ==
    \/ \E data \in ReferenceDatasets : W_Assign(data)
    \/ W_Stats
    \/ W_Return
    \/ \E current_data \in CurrentDatasets : R_Begin(current_data)
    \/ R_Read
    \/ R_Analyze
    \/ R_Return

\* The two threads run on a detector constructed with the defaults.
InitConc == Init /\ config = DefaultConfig

SpecConc == InitConc /\ [][NextConc]_vars
\* ------------------------------------------------------------------------
\* run_with_timeout (pipelines/training/src/mlflow_utils.py)
\* ------------------------------------------------------------------------

\* Largest timeout, in seconds, a call is given.
MaxSeconds == 2

\* Longest time, in seconds, a callable that completes takes.
MaxDuration == 3

\* The clock stops after this many seconds.
MaxTime == 4

\* The duration of a callable that never completes.
Never == 0 - 1

\* No detector is constructed in a process that runs a pipeline step.
DetectorUnused ==
    /\ config = DefaultConfig
    /\ reference_data = <<>>
    /\ reference_stats = <<>>
    /\ heap = <<>>
    /\ metrics = NoMetrics
    /\ returned = <<>>
    /\ given = <<>>
    /\ caller_data = <<>>
    /\ last = [op |-> "none"]
    /\ calls = 0
    /\ writer = Idle
    /\ reader = Idle

\* run_with_timeout(fn, seconds=seconds) is called at time 0; fn takes
\* fn.duration seconds (or never completes) and then returns or raises.
InitTimeout ==
    /\ DetectorUnused
    /\ \E seconds \in 1..MaxSeconds, duration \in (0..MaxDuration) \cup {Never},
          ends \in {"returns", "raises"} :
          pipeline = [step    |-> "run_with_timeout",
                      seconds |-> seconds,
                      fn      |-> [duration |-> duration, ends |-> ends],
                      now     |-> 0,
                      pc      |-> "submit",
                      worker  |-> "idle",
                      pending |-> "none",
                      outcome |-> "none"]

\* ThreadPoolExecutor.__exit__ calls shutdown(wait=True), which joins the
\* worker thread: it returns when fn has ended.
ShutdownReturns(worker) == worker = "finished"

\* Line 48: executor.submit(fn) starts fn on the worker thread.
T_Submit ==
    /\ pipeline.step = "run_with_timeout"
    /\ pipeline.pc = "submit"
    /\ pipeline' = [pipeline EXCEPT !.pc = "result", !.worker = "running"]
    /\ UNCHANGED detector

\* fn ends on the worker thread.
T_FnEnds ==
    /\ pipeline.step = "run_with_timeout"
    /\ pipeline.worker = "running"
    /\ pipeline.fn.duration # Never
    /\ pipeline.now >= pipeline.fn.duration
    /\ pipeline' = [pipeline EXCEPT !.worker = "finished"]
    /\ UNCHANGED detector

\* Line 50: future.result(timeout=seconds) returns the value of fn, or raises
\* what fn raised.
T_Result ==
    /\ pipeline.step = "run_with_timeout"
    /\ pipeline.pc = "result"
    /\ pipeline.worker = "finished"
    /\ pipeline' = [pipeline EXCEPT !.pc = "exit",
                                    !.pending = IF pipeline.fn.ends = "returns"
                                                THEN "value" ELSE "fn_error"]
    /\ UNCHANGED detector

\* Lines 51-53: future.result raised the timeout error; future.cancel() does
\* nothing to a future that is running; MLflowTimeoutError is raised.
T_Timeout ==
    /\ pipeline.step = "run_with_timeout"
    /\ pipeline.pc = "result"
    /\ pipeline.worker # "finished"
    /\ pipeline.now >= pipeline.seconds
    /\ pipeline' = [pipeline EXCEPT !.pc = "exit", !.pending = "MLflowTimeoutError"]
    /\ UNCHANGED detector

\* Line 47: the with statement is left, by return or by exception, through
\* the executor's __exit__; then the call is over.
T_Exit ==
    /\ pipeline.step = "run_with_timeout"
    /\ pipeline.pc = "exit"
    /\ ShutdownReturns(pipeline.worker)
    /\ pipeline' = [pipeline EXCEPT !.pc = "done", !.outcome = pipeline.pending]
    /\ UNCHANGED detector

\* A second passes while the caller is blocked in future.result or in
\* __exit__ and fn is still running.
T_Tick ==
    /\ pipeline.step = "run_with_timeout"
    /\ pipeline.now < MaxTime
    /\ pipeline.worker = "running"
    /\ pipeline.fn.duration = Never \/ pipeline.now < pipeline.fn.duration
    /\ \/ pipeline.pc = "result" /\ pipeline.now < pipeline.seconds
       \/ pipeline.pc = "exit" /\ ~ShutdownReturns(pipeline.worker)
    /\ pipeline' = [pipeline EXCEPT !.now = pipeline.now + 1]
    /\ UNCHANGED detector

NextTimeout ==
    \/ T_Submit
    \/ T_FnEnds
    \/ T_Result
    \/ T_Timeout
    \/ T_Exit
    \/ T_Tick

SpecTimeout == InitTimeout /\ [][NextTimeout]_vars

\* ------------------------------------------------------------------------
\* register_model (pipelines/training/src/register_model.py)
\* ------------------------------------------------------------------------

\* Number of register_model calls made against one registry.
MaxRegistrations == 2

\* Default of mlflow_timeout_seconds.
MLFLOW_CONNECTION_TIMEOUT == 30

\* The thresholds a call is given: -0.1, 0, 0.9, 1, 1.5 and NaN.
Thresholds ==
    {0 - (Scale \div 10), 0, (9 * Scale) \div 10, Scale, (3 * Scale) \div 2, NaN}

\* run.data.metrics.get("accuracy"): missing, 0.5, 0.9 or 0.95.
AccuracyMetrics ==
    {<<>>, <<Scale \div 2>>, <<(9 * Scale) \div 10>>, <<(95 * Scale) \div 100>>}

TimeoutSeconds == {0, MLFLOW_CONNECTION_TIMEOUT, 301}

\* The MLflow call that fails during one register_model call, if any.
MlflowFailures ==
    {"none", "connect_timeout", "connect", "get_run", "register_model",
     "set_registered_model_alias"}

\* The model registry: the number of versions of the model and its aliases.
EmptyRegistry == [versions |-> 0, aliases |-> <<>>]

\* validate_threshold: raises unless 0.0 <= threshold <= 1.0.
validate_threshold(threshold) ==
    IF FGe(threshold, 0) /\ FGe(Scale, threshold) THEN "none" ELSE "InvalidThresholdError"

\* accuracy > threshold in place of accuracy >= threshold.
AboveThreshold(accuracy, threshold) == FGt(accuracy, threshold)

\* Line 135: accuracy >= threshold.
MeetsThreshold(accuracy, threshold) == FGe(accuracy, threshold)

RegistrationResult(accuracy, threshold, registered, version, alias, error_message) ==
    [accuracy      |-> accuracy,
     threshold     |-> threshold,
     registered    |-> registered,
     version       |-> version,
     alias         |-> alias,
     success       |-> TRUE,
     error_message |-> error_message]

\* The call ends with an exception, after the MLflow calls mlflow_calls.
Raises(exception, mlflow_calls, registry) ==
    [raised |-> exception, result |-> <<>>, mlflow_calls |-> mlflow_calls,
     registry |-> registry]

\* The call returns result, after the MLflow calls mlflow_calls.
Returns(result, mlflow_calls, registry) ==
    [raised |-> "none", result |-> <<result>>, mlflow_calls |-> mlflow_calls,
     registry |-> registry]

\* client.set_registered_model_alias(model_name, alias, version)
set_registered_model_alias(registry, alias, version) ==
    [registry EXCEPT !.aliases =
        [a \in DOMAIN registry.aliases \cup {alias} |->
            IF a = alias THEN version ELSE registry.aliases[a]]]

\* Lines 135-168: the model is registered and the alias is set when the
\* accuracy meets the threshold.
RegisterIfGood(accuracy, threshold, alias, fails, mlflow_calls, registry) ==
    IF MeetsThreshold(accuracy, threshold)
    THEN IF fails = "register_model"
         THEN Raises("ModelRegistrationError", Append(mlflow_calls, "register_model"),
                     registry)
         ELSE LET version    == registry.versions + 1
                  registered == [registry EXCEPT !.versions = version]
                  all_calls  == mlflow_calls
                                    \o <<"register_model", "set_registered_model_alias">>
              IN  IF fails = "set_registered_model_alias"
                  THEN Raises("ModelRegistrationError", all_calls, registered)
                  ELSE Returns(RegistrationResult(accuracy, threshold, TRUE, <<version>>,
                                                  <<alias>>, <<>>),
                               all_calls,
                               set_registered_model_alias(registered, alias, version))
    ELSE Returns(RegistrationResult(accuracy, threshold, FALSE, <<>>, <<>>, <<>>),
                 mlflow_calls, registry)

\* Lines 114-133: the run is fetched and its accuracy metric is read.
ReadAccuracy(threshold, alias, metrics_accuracy, fails, mlflow_calls, registry) ==
    IF fails = "get_run"
    THEN Raises("ModelRegistrationError", Append(mlflow_calls, "get_run"), registry)
    ELSE IF metrics_accuracy = <<>>
    THEN Returns(RegistrationResult(0, threshold, FALSE, <<>>, <<>>,
                                    <<"No accuracy metric found in run">>),
                 Append(mlflow_calls, "get_run"), registry)
    ELSE RegisterIfGood(metrics_accuracy[1], threshold, alias, fails,
                        Append(mlflow_calls, "get_run"), registry)

\* register_model(model_name, mlflow_uri, threshold, alias, run_id,
\* mlflow_timeout_seconds) against a tracking server whose run holds
\* metrics_accuracy and whose call `fails` fails.
register_model(threshold, alias, mlflow_timeout_seconds, metrics_accuracy, fails, registry) ==
    IF validate_threshold(threshold) # "none"
    THEN Raises(validate_threshold(threshold), <<>>, registry)
    ELSE IF mlflow_timeout_seconds < 1 \/ mlflow_timeout_seconds > 300
    THEN Raises("ModelRegistrationError", <<>>, registry)
    ELSE IF fails \in {"connect_timeout", "connect"}
    THEN Raises("ModelRegistrationError", <<"set_tracking_uri">>, registry)
    ELSE ReadAccuracy(threshold, alias, metrics_accuracy, fails,
                      <<"set_tracking_uri", "MlflowClient">>, registry)

\* The pipeline step starts with an empty registry.
InitRegister ==
    /\ DetectorUnused
    /\ pipeline = [step |-> "register_model", registry |-> EmptyRegistry, n |-> 0,
                   last |-> <<>>]

RegisterModel(threshold, alias, mlflow_timeout_seconds, metrics_accuracy, fails) ==
    /\ pipeline.step = "register_model"
    /\ pipeline.n < MaxRegistrations
    /\ LET call == register_model(threshold, alias, mlflow_timeout_seconds,
                                  metrics_accuracy, fails, pipeline.registry)
       IN  pipeline' = [step     |-> "register_model",
                        registry |-> call.registry,
                        n        |-> pipeline.n + 1,
                        last     |-> <<[threshold              |-> threshold,
                                        alias                  |-> alias,
                                        mlflow_timeout_seconds |-> mlflow_timeout_seconds,
                                        metrics_accuracy       |-> metrics_accuracy,
                                        fails                  |-> fails,
                                        registry_before        |-> pipeline.registry,
                                        raised                 |-> call.raised,
                                        result                 |-> call.result,
                                        mlflow_calls           |-> call.mlflow_calls]>>]
    /\ UNCHANGED detector

NextRegister ==
    \E threshold \in Thresholds, alias \in {"champion"},
       mlflow_timeout_seconds \in TimeoutSeconds, metrics_accuracy \in AccuracyMetrics,
       fails \in MlflowFailures :
        RegisterModel(threshold, alias, mlflow_timeout_seconds, metrics_accuracy, fails)

SpecRegister == InitRegister /\ [][NextRegister]_vars

\* ------------------------------------------------------------------------
\* The statistical methods, called on two samples
\* ------------------------------------------------------------------------

\* Longest sample.
MaxLen == 2

\* Largest value of a sample.
MaxValue == 2

\* The samples: every array of at most MaxLen values of 0..MaxValue, the empty
\* one included.
Arrays == UNION {[1..n -> 0..MaxValue] : n \in 0..MaxLen}

\* A detector with the default configuration, and the two samples its
\* statistical methods are called on.
InitStatistics ==
    /\ config = DefaultConfig
    /\ reference_data = <<>>
    /\ reference_stats = <<>>
    /\ heap = <<>>
    /\ metrics = NoMetrics
    /\ returned = <<>>
    /\ given = <<>>
    /\ caller_data = <<>>
    /\ last = [op |-> "__init__"]
    /\ calls = 0
    /\ writer = Idle
    /\ reader = Idle
    /\ \E reference \in Arrays, current \in Arrays :
          pipeline = [step |-> "statistics", reference |-> reference, current |-> current]

\* The call as `last` records it: the exception raised, or the value returned.
MethodRaised(op, exception) == [op |-> op, raised |-> exception]

MethodReturned(op, value) == [op |-> op, raised |-> "none", value |-> value]

\* compute_psi(reference, current); reference.min() raises ValueError on an
\* empty array.
ComputePsi ==
    /\ pipeline.step = "statistics"
    /\ last' = IF pipeline.reference = <<>> \/ pipeline.current = <<>>
               THEN MethodRaised("compute_psi", "ValueError")
               ELSE MethodReturned("compute_psi",
                                   compute_psi(pipeline.reference, pipeline.current))
    /\ UNCHANGED <<pipeline, config, reference_data, reference_stats, heap, metrics,
                   returned, given, caller_data, calls, writer, reader>>

\* compute_jensen_shannon(reference, current); reference.min() raises
\* ValueError on an empty array.
ComputeJensenShannon ==
    /\ pipeline.step = "statistics"
    /\ last' = IF pipeline.reference = <<>> \/ pipeline.current = <<>>
               THEN MethodRaised("compute_jensen_shannon", "ValueError")
               ELSE MethodReturned("compute_jensen_shannon",
                                   compute_jensen_shannon(pipeline.reference,
                                                          pipeline.current))
    /\ UNCHANGED <<pipeline, config, reference_data, reference_stats, heap, metrics,
                   returned, given, caller_data, calls, writer, reader>>

\* compute_chi_squared(reference, current): the (statistic, p-value) pair, or
\* the exception of scipy's chisquare.
ComputeChiSquared ==
    /\ pipeline.step = "statistics"
    /\ LET chi == compute_chi_squared(pipeline.reference, pipeline.current)
       IN  last' = IF chi.raised # "none"
                   THEN MethodRaised("compute_chi_squared", chi.raised)
                   ELSE MethodReturned("compute_chi_squared",
                                       <<chi.statistic, chi.pvalue>>)
    /\ UNCHANGED <<pipeline, config, reference_data, reference_stats, heap, metrics,
                   returned, given, caller_data, calls, writer, reader>>

NextStatistics ==
    \/ ComputePsi
    \/ ComputeJensenShannon
    \/ ComputeChiSquared

SpecStatistics == InitStatistics /\ [][NextStatistics]_vars

\* ------------------------------------------------------------------------
\* Datasets that make a call raise, and thresholds at the ends of the scale
\* ------------------------------------------------------------------------

\* An object column that holds a list, before a numeric column.
RefList ==
    DataFrame(<<"D", "A">>,
              [D |-> "object", A |-> "float64"],
              [D |-> <<Unhashable, 1, 1, 1>>, A |-> <<1, 1, 2, 2>>])

\* A numeric column without any value, after two columns that have values.
RefHalf ==
    DataFrame(<<"A", "B", "C">>,
              [A |-> "float64", B |-> "object", C |-> "float64"],
              [A |-> <<0, 1, 2, 3>>, B |-> <<1, 1, 1, 1>>, C |-> <<NA, NA, NA, NA>>])

CurFlip ==
    DataFrame(<<"A", "B">>,
              [A |-> "float64", B |-> "object"],
              [A |-> <<0, 1, 2, 3>>, B |-> <<2, 2, 2, 2>>])

CurAll ==
    DataFrame(<<"A", "B", "C">>,
              [A |-> "float64", B |-> "object", C |-> "float64"],
              [A |-> <<0, 1, 2, 3>>, B |-> <<1, 1, 1, 1>>, C |-> <<1, 2, 3, 4>>])

CurB == DataFrame(<<"B">>, [B |-> "object"], [B |-> <<1, 1, 2, 2>>])

EdgeReferences == {RefABC, RefList, RefHalf}

EdgeCurrents == {CurFlip, CurAll, CurB, CurOther}

\* The defaults, both thresholds at 0.0, and thresholds of 1.0 and 0.95.
EdgeConfigurations ==
    {DefaultConfig,
     __init__(0, 0),
     __init__(Scale, (95 * Scale) \div 100)}

InitEdge ==
    /\ config \in EdgeConfigurations
    /\ reference_data = <<>>
    /\ reference_stats = <<>>
    /\ heap = <<>>
    /\ metrics = NoMetrics
    /\ returned = <<>>
    /\ given = <<>>
    /\ caller_data = <<>>
    /\ last = [op |-> "__init__"]
    /\ calls = 0
    /\ writer = Idle
    /\ reader = Idle
    /\ pipeline = NoStep

NextEdge ==
    \/ \E data \in EdgeReferences : SetReferenceData(data)
    \/ \E current_data \in EdgeCurrents : DetectDrift(current_data)

SpecEdge == InitEdge /\ [][NextEdge]_vars

\* ------------------------------------------------------------------------
\* detect_drift calls under one reference and a psi_threshold that changes
\* ------------------------------------------------------------------------

\* The values psi_threshold is given: 0.0, the default 0.2, and 5.0.
PsiThresholds == {0, Scale \div 5, 5 * Scale}

\* detector.psi_threshold = psi_thr: the attribute is given another value.
SetPsiThreshold(psi_thr) ==
    /\ calls < MaxCalls
    /\ writer.pc = "idle" /\ reader.pc = "idle"
    /\ psi_thr # config.psi_threshold
    /\ config' = [config EXCEPT !.psi_threshold = psi_thr]
    /\ last' = [op |-> "set_psi_threshold", psi_threshold |-> psi_thr]
    /\ calls' = calls + 1
    /\ UNCHANGED <<pipeline, caller_data, given, reference_data, reference_stats, heap,
                   metrics, returned, writer, reader>>

NextPsiThreshold ==
    \/ \E current_data \in CurrentDatasets : DetectDrift(current_data)
    \/ \E psi_thr \in PsiThresholds : SetPsiThreshold(psi_thr)

SpecPsiThreshold == InitDetect /\ [][NextPsiThreshold]_vars

\* ------------------------------------------------------------------------
\* Properties
\* ------------------------------------------------------------------------

\* The last call was a detect_drift that returned a report.
Reported == last.op = "detect_drift" /\ last.raised = "none"

\* The last call was a detect_drift that raised.
DetectRaised == last.op = "detect_drift" /\ last.raised # "none"

\* The features of a sequence of results, in order.
Features(feature_results) == [i \in 1..Len(feature_results) |-> feature_results[i].feature]

\* The reference features that current_data holds with a non-missing value.
Analysable(ref, current_data, col) ==
    HasColumn(current_data, col) /\ dropna(current_data.values[col]) # <<>>

\* The entry of reference_stats that set_reference_data computes for column
\* col of dataset D, compared with a stored entry (whose list of categories is
\* read through the heap).
EntryOf(entry, D, col) ==
    /\ HasColumn(D, col)
    /\ entry = ColumnStatistics(Column(D, col),
                                IF entry.type = "categorical" THEN entry.categories ELSE 0)
    /\ entry.type = "categorical" =>
           heap[entry.categories] = value_counts_index(Column(D, col).values)

\* What one detect_drift call gave _analyze_feature comes from dataset D.
UsedFrom(used, D) ==
    \A k \in 1..Len(used) :
        /\ HasColumn(D, used[k].feature)
        /\ used[k].reference = Column(D, used[k].feature)
        /\ used[k].ref_stats # <<>>
        /\ EntryOf(used[k].ref_stats[1], D, used[k].feature)

Consistent(used) == \E D \in ReferenceDatasets : UsedFrom(used, D)

\* C1: a detect_drift that runs concurrently with set_reference_data gives
\* every feature it analyses the reference values and the statistics of one
\* and the same reference dataset, never the new values with old or missing
\* statistics, and it never finds a column of its loop gone.
C1_ConsistentSnapshot ==
    /\ reader.pc # "idle" => Consistent(reader.acc.used)
    /\ last.op = "detect_drift" =>
           /\ Consistent(last.used)
           /\ last.raised # "KeyError"

\* C2: detect_drift on a detector without reference raises ValueError,
\* returns no report and leaves every gauge and counter as it was.
C2_NoReferenceFails ==
    [][(reference_data = <<>> /\ calls' = calls + 1 /\ last'.op = "detect_drift")
          => /\ last'.raised = "ValueError"
             /\ returned' = returned
             /\ metrics' = metrics]_vars

C2_Witness ==
    /\ last.op = "detect_drift"
    /\ last.reference = <<>>
    /\ last.raised = "ValueError"
    /\ returned = <<>>

\* C3: the profile holds an entry for exactly the columns of the dataset set
\* last, in its column order, each computed from that dataset.
C3_ProfileOfLatest ==
    reference_data # <<>> =>
        /\ DictKeys(reference_stats) = reference_data[1].columns
        /\ \A i \in 1..Len(reference_stats) :
               EntryOf(reference_stats[i].value, reference_data[1], reference_stats[i].key)

\* The profile and a report as values: every list address replaced by the
\* list's content.
ProfileContent ==
    [i \in 1..Len(reference_stats) |->
        [key   |-> reference_stats[i].key,
         value |-> reference_stats[i].value,
         lists |-> IF reference_stats[i].value.type = "categorical"
                   THEN <<heap[reference_stats[i].value.categories]>> ELSE <<>>]]

ReturnedContent ==
    [k \in 1..Len(returned) |->
        [report |-> returned[k],
         lists  |-> [i \in 1..Len(returned[k].feature_results) |->
                        IF "reference_categories"
                               \in DOMAIN returned[k].feature_results[i].details
                        THEN <<heap[returned[k].feature_results[i].details.reference_categories]>>
                        ELSE <<>>]]]

\* C4: a change the caller makes to a returned report changes nothing of the
\* detector's profile, and no later call on the detector changes a report
\* that was returned before.
C4_ReportsShareNothing ==
    [][/\ (calls' = calls + 1 /\ last'.op = "mutate_report")
             => ProfileContent' = ProfileContent
       /\ (calls' = calls + 1 /\ last'.op \in {"set_reference_data", "detect_drift"})
             => SubSeq(ReturnedContent', 1, Len(returned)) = ReturnedContent]_vars

\* A dataset without rows or without columns.
EmptyDataset(data) ==
    \/ data.columns = <<>>
    \/ \A i \in 1..Len(data.columns) : data.values[data.columns[i]] = <<>>

\* C5: set_reference_data with a dataset of zero rows or zero columns raises,
\* and no detect_drift succeeds on the reference it was given.
C5_EmptyReferenceRejected ==
    /\ (last.op = "set_reference_data" /\ EmptyDataset(last.data)) => last.raised # "none"
    /\ (last.op = "detect_drift" /\ last.reference # <<>> /\ EmptyDataset(last.reference[1]))
           => last.raised # "none"

\* The sum of the drift scores of a sequence of results.
RECURSIVE SumScores(_)
SumScores(feature_results) ==
    IF feature_results = <<>> THEN 0
    ELSE FAdd(SumScores(SubSeq(feature_results, 1, Len(feature_results) - 1)),
              feature_results[Len(feature_results)].drift_score)

\* C6: overall_drift_score of a report is the sum of the drift scores of its
\* results divided by their number, and 0.0 for a report without results.
C6_OverallIsMean ==
    Reported =>
        LET r == last.report
        IN  /\ r.feature_results = <<>> => r.overall_drift_score = 0
            /\ r.feature_results # <<>> =>
                   r.overall_drift_score
                       = FDivInt(SumScores(r.feature_results), Len(r.feature_results))

C6_Witness ==
    /\ Reported
    /\ Len(last.report.feature_results) >= 2
    /\ last.report.feature_results[1].drift_score # last.report.feature_results[2].drift_score
    /\ last.report.overall_drift_score > 0

\* C7: features_analyzed is the number of results, features_drifted the
\* number of drifted ones, and
\* 0 <= features_drifted <= features_analyzed <= number of reference columns.
C7_Counts ==
    Reported =>
        LET r == last.report
        IN  /\ r.features_analyzed = Len(r.feature_results)
            /\ r.features_drifted
                   = Len(SelectSeq(r.feature_results, LAMBDA res : res.is_drifted))
            /\ 0 <= r.features_drifted
            /\ r.features_drifted <= r.features_analyzed
            /\ r.features_analyzed <= Len(last.reference[1].columns)

C7_Witness ==
    /\ Reported
    /\ last.report.features_drifted >= 1
    /\ last.report.features_drifted < last.report.features_analyzed

\* C8: a reference feature that current_data lacks gets no result and raises
\* nothing; the reference features that current_data holds with a
\* non-missing value are the ones with a result; no other column has one.
C8_AbsentFeatureSkipped ==
    /\ Reported =>
           LET ref  == last.reference[1]
               got  == Range(Features(last.report.feature_results))
           IN  /\ \A c \in Range(ref.columns) :
                      ~HasColumn(last.data, c) => c \notin got
               /\ \A c \in Range(ref.columns) :
                      Analysable(ref, last.data, c) => c \in got
               /\ got \subseteq Range(ref.columns)
               /\ last.report.features_analyzed
                      = Cardinality({c \in Range(ref.columns) : Analysable(ref, last.data, c)})
    /\ (DetectRaised /\ last.reference # <<>>) => HasColumn(last.data, last.at)

C8_Witness ==
    /\ Reported
    /\ \E c \in Range(last.reference[1].columns) : ~HasColumn(last.data, c)
    /\ \E c \in Range(last.data.columns) : ~HasColumn(last.reference[1], c)
    /\ last.report.features_analyzed >= 1

\* The column holds no non-missing value.
AllMissing(data, col) == HasColumn(data, col) /\ dropna(data.values[col]) = <<>>

\* C9: a reference feature whose column of current_data holds no non-missing
\* value is never analysed and never raises: it has no result, and the
\* features after it are processed.
C9_AllMissingSkipped ==
    last.op = "detect_drift" /\ last.reference # <<>> =>
        /\ \A k \in 1..Len(last.used) : ~AllMissing(last.data, last.used[k].feature)
        /\ last.raised # "none" => ~AllMissing(last.data, last.at)
        /\ last.raised = "none" =>
               /\ \A c \in Range(Features(last.report.feature_results)) :
                      ~AllMissing(last.data, c)
               /\ \A i \in 1..Len(last.reference[1].columns) :
                      Analysable(last.reference[1], last.data, last.reference[1].columns[i])
                          => \E k \in 1..Len(last.used) :
                                 last.used[k].feature = last.reference[1].columns[i]

C9_Witness ==
    /\ Reported
    /\ \E i \in 1..Len(last.reference[1].columns) :
           /\ AllMissing(last.data, last.reference[1].columns[i])
           /\ \E j \in (i + 1)..Len(last.reference[1].columns) :
                  last.reference[1].columns[j] \in Range(Features(last.report.feature_results))

\* C10: the results of a report are in the column order of the reference
\* dataset, whatever the column order of current_data.
C10_ReferenceOrder ==
    Reported =>
        Features(last.report.feature_results)
            = SelectSeq(last.reference[1].columns,
                        LAMBDA c : Analysable(last.reference[1], last.data, c))

C10_Witness ==
    /\ Reported
    /\ Len(last.report.feature_results) >= 2
    /\ last.reference[1] = RefCA
    /\ last.data.columns # last.reference[1].columns
    /\ DictKeys(reference_stats) # last.reference[1].columns

\* Every DriftResult of the reports returned so far.
AllResults ==
    UNION {Range(returned[k].feature_results) : k \in 1..Len(returned)}

\* The position of a severity in none -> warning -> critical.
Rank(severity) ==
    CASE severity = "none" -> 0
      [] severity = "warning" -> 1
      [] severity = "critical" -> 2

\* C11: with warning_threshold <= drift_threshold, every DriftResult is
\* critical exactly when drift_score >= drift_threshold, warning exactly when
\* warning_threshold <= drift_score < drift_threshold and none otherwise;
\* is_drifted is true exactly when severity is not none; and a result with a
\* greater drift_score never has a lower severity.
C11_SeverityTiers ==
    FGe(config.drift_threshold, config.warning_threshold) =>
        /\ \A r \in AllResults :
               /\ r.severity = "critical" <=> FGe(r.drift_score, config.drift_threshold)
               /\ r.severity = "warning"
                      <=> /\ FGe(r.drift_score, config.warning_threshold)
                          /\ ~FGe(r.drift_score, config.drift_threshold)
               /\ r.severity = "none" <=> ~FGe(r.drift_score, config.warning_threshold)
               /\ r.is_drifted <=> r.severity # "none"
        /\ \A r1, r2 \in AllResults :
               (r1.drift_score # NaN /\ r2.drift_score # NaN
                    /\ r1.drift_score <= r2.drift_score)
                   => Rank(r1.severity) <= Rank(r2.severity)

\* Results on both thresholds and above the upper one.
C11_Witness ==
    /\ config.warning_threshold < config.drift_threshold
    /\ \E r \in AllResults : r.drift_score = config.warning_threshold /\ r.severity = "warning"
    /\ \E r \in AllResults : r.drift_score = config.drift_threshold /\ r.severity = "critical"
    /\ \E r \in AllResults : r.drift_score > config.drift_threshold /\ r.is_drifted

\* C12: the recommendation of a report is CRITICAL when overall_drift_score
\* >= drift_threshold, else WARNING when it is >= warning_threshold, else OK,
\* whatever the counts; a CRITICAL or WARNING message states features_drifted,
\* features_analyzed and their percentage, an OK message features_analyzed.
C12_RecommendationTier ==
    Reported =>
        LET r   == last.report
            rec == r.recommendation
        IN  /\ rec.tier = (IF FGe(r.overall_drift_score, config.drift_threshold)
                           THEN "CRITICAL"
                           ELSE IF FGe(r.overall_drift_score, config.warning_threshold)
                           THEN "WARNING"
                           ELSE "OK")
            /\ rec.n_features = r.features_analyzed
            /\ rec.tier # "OK" =>
                   /\ rec.n_drifted = r.features_drifted
                   /\ rec.drift_percentage
                          = (r.features_drifted * 100 * Scale) \div r.features_analyzed
            /\ rec.tier = "OK" => DOMAIN rec = {"tier", "n_features"}

\* A WARNING report although one of its two drifted features is critical.
C12_Witness ==
    /\ Reported
    /\ last.report.recommendation.tier = "WARNING"
    /\ last.report.recommendation.n_drifted = 2
    /\ last.report.recommendation.n_features = 2
    /\ \E i \in 1..2 : last.report.feature_results[i].severity = "critical"

\* What two reports have to agree on: everything but the timestamp and the
\* details of the results.
Verdict(report) ==
    [features_analyzed   |-> report.features_analyzed,
     features_drifted    |-> report.features_drifted,
     overall_drift_score |-> report.overall_drift_score,
     recommendation      |-> report.recommendation,
     feature_results     |-> [i \in 1..Len(report.feature_results) |->
                                 [feature     |-> report.feature_results[i].feature,
                                  drift_score |-> report.feature_results[i].drift_score,
                                  severity    |-> report.feature_results[i].severity,
                                  is_drifted  |-> report.feature_results[i].is_drifted]]]

\* C13: two detect_drift calls of one detector that are given the same
\* current dataset under the same reference return reports with the same
\* verdict, whatever detect_drift calls were made before or between them.
C13_SameInputSameVerdict ==
    \A j, k \in 1..Len(returned) :
        given[j] = given[k] => Verdict(returned[j]) = Verdict(returned[k])

\* Two calls with one dataset, a call with another dataset between them, and
\* a drifted feature in each report.
C13_Witness ==
    /\ Len(returned) = 3
    /\ given[1] = given[3]
    /\ given[2].data # given[1].data
    /\ returned[1].timestamp # returned[3].timestamp
    /\ returned[1].features_drifted >= 1
    /\ returned[2].features_drifted >= 1
    /\ Verdict(returned[2]) # Verdict(returned[1])

\* C14: a detect_drift call leaves the configuration, the reference dataset
\* and the content of the reference profile as they were, and nothing but a
\* set_reference_data call changes the reference dataset or the profile.
C14_DetectReadOnly ==
    [][/\ (calls' = calls + 1 /\ last'.op = "detect_drift")
             => /\ config' = config
                /\ reference_data' = reference_data
                /\ ProfileContent' = ProfileContent
       /\ (reference_data' # reference_data \/ ProfileContent' # ProfileContent)
             => last'.op = "set_reference_data"]_vars

\* The report detect_drift(current_data) returns on a detector with these
\* fields, timestamp aside (nothing when it raises).
ReportOf(ref_opt, stats, hp, m, current_data) ==
    LET acc == detect_drift(ref_opt, stats, hp, m, current_data)
    IN  IF acc.raised = "none" THEN <<Verdict(DriftReport(acc, 0))>> ELSE <<>>

\* C15: a change the caller makes to the DataFrame it gave set_reference_data
\* changes neither the stored reference dataset nor the profile nor the
\* report of any later detect_drift call.
C15_ReferenceOwned ==
    [][(calls' = calls + 1 /\ last'.op = "change_data")
          => /\ config' = config
             /\ reference_data' = reference_data
             /\ ProfileContent' = ProfileContent
             /\ \A current_data \in CurrentDatasets :
                    ReportOf(reference_data', reference_stats', heap', metrics',
                             current_data)
                        = ReportOf(reference_data, reference_stats, heap, metrics,
                                   current_data)]_vars

\* A report with results, returned after the caller removed the rows of the
\* DataFrame it had given as reference.
C15_Witness ==
    /\ Reported
    /\ last.report.features_analyzed >= 2
    /\ caller_data # <<>>
    /\ caller_data[1].content = DropRows(last.reference[1])
    /\ caller_data[1].content # last.reference[1]

\* The label values the counter and the gauges can be keyed by.
FeatureNames == {"A", "B", "C", "D"}

Severities == {"none", "warning", "critical"}

\* The value of the DRIFT_DETECTED counter of (feature, severity).
Detected(m, feature, severity) ==
    IF <<feature, severity>> \in DOMAIN m.DRIFT_DETECTED
    THEN m.DRIFT_DETECTED[<<feature, severity>>] ELSE 0

\* The results a detect_drift call computed, whether it returned or raised.
Computed(ref_opt, stats, hp, m, current_data) ==
    detect_drift(ref_opt, stats, hp, m, current_data).feature_results

\* C16: no step lowers a drift-detected count; a detect_drift call raises the
\* count of (feature, severity) by one when the result it computed for the
\* feature is drifted with that severity, and leaves it alone otherwise: for
\* severity none, for a skipped feature, for any other severity.
C16_CounterCountsDrift ==
    [][\A f \in FeatureNames, sev \in Severities :
          /\ Detected(metrics', f, sev) >= Detected(metrics, f, sev)
          /\ Detected(metrics', f, "none") = 0
          /\ (calls' = calls + 1 /\ last'.op = "detect_drift")
                => LET results == Computed(reference_data, reference_stats, heap, metrics,
                                           last'.data)
                       hit     == \E i \in 1..Len(results) :
                                      /\ results[i].feature = f
                                      /\ results[i].is_drifted
                                      /\ results[i].severity = sev
                   IN  Detected(metrics', f, sev)
                           = Detected(metrics, f, sev) + (IF hit THEN 1 ELSE 0)
          /\ ~(calls' = calls + 1 /\ last'.op = "detect_drift")
                => Detected(metrics', f, sev) = Detected(metrics, f, sev)]_vars

\* A second drifted result of one feature and severity, in a call that also
\* has a result that is not drifted.
C16_Witness ==
    /\ Reported
    /\ \E i \in 1..Len(last.report.feature_results) :
           LET r == last.report.feature_results[i]
           IN  r.is_drifted /\ Detected(metrics, r.feature, r.severity) = 2
    /\ \E i \in 1..Len(last.report.feature_results) :
           ~last.report.feature_results[i].is_drifted

\* The three gauges of a feature: nothing when they were never set.
Gauges(m, feature) ==
    IF feature \in DOMAIN m.DRIFT_SCORE
    THEN <<m.DRIFT_SCORE[feature], m.KS_STATISTIC[feature], m.PSI_SCORE[feature]>>
    ELSE <<>>

\* C17: when detect_drift returns, the gauges of every feature of
\* feature_results hold the drift_score, ks_statistic and psi_score of its
\* result, and the gauges of every other feature are as they were before.
C17_GaugesFollowResults ==
    [][(calls' = calls + 1 /\ last'.op = "detect_drift" /\ last'.raised = "none")
          => LET results == last'.report.feature_results
             IN  /\ \A i \in 1..Len(results) :
                        Gauges(metrics', results[i].feature)
                            = <<results[i].drift_score, results[i].ks_statistic,
                                results[i].psi_score>>
                 /\ \A f \in FeatureNames \ Range(Features(results)) :
                        Gauges(metrics', f) = Gauges(metrics, f)]_vars

\* A report that skips a reference feature whose gauges an earlier call set,
\* and gives another feature a score that differs from its gauge before.
C17_Witness ==
    /\ Reported
    /\ Len(returned) = 2
    /\ \E f \in Range(last.reference[1].columns) :
           /\ f \notin Range(Features(last.report.feature_results))
           /\ Gauges(metrics, f) # <<>>
    /\ \E i \in 1..Len(last.report.feature_results) :
           \E j \in 1..Len(returned[1].feature_results) :
               /\ returned[1].feature_results[j].feature
                      = last.report.feature_results[i].feature
               /\ returned[1].feature_results[j].drift_score
                      # last.report.feature_results[i].drift_score

\* C18: no detector exists whose warning_threshold is above its
\* drift_threshold: the construction with such a pair raises.
C18_InvertedRejected ==
    FGt(config.warning_threshold, config.drift_threshold) => config.raised # "none"

\* C19: a call of run_with_timeout is over when its deadline has passed,
\* whether fn has ended or not, and it ends by returning the value of fn or
\* by raising MLflowTimeoutError.
C19_HardTimeout ==
    pipeline.step = "run_with_timeout" =>
        /\ pipeline.pc # "done" => pipeline.now <= pipeline.seconds
        /\ (pipeline.pc = "done" /\ pipeline.fn.ends = "returns")
               => pipeline.outcome \in {"value", "MLflowTimeoutError"}

\* The last register_model call, when one was made.
Registration == pipeline.last[1]

Registered == pipeline.step = "register_model" /\ pipeline.last # <<>>

\* The run holds an accuracy metric and it is >= threshold.
Good(call) ==
    call.metrics_accuracy # <<>> /\ FGe(call.metrics_accuracy[1], call.threshold)

ValidThreshold(call) == FGe(call.threshold, 0) /\ FGe(Scale, call.threshold)

\* The call registered a new version and set the alias to it.
RegisteredAndAliased(call) ==
    /\ pipeline.registry.versions = call.registry_before.versions + 1
    /\ call.alias \in DOMAIN pipeline.registry.aliases
    /\ pipeline.registry.aliases[call.alias] = pipeline.registry.versions

\* The call returned the result of a model that was not registered.
ReturnedUnregistered(call) ==
    /\ call.raised = "none"
    /\ call.result[1].success
    /\ ~call.result[1].registered
    /\ call.result[1].version = <<>>
    /\ call.result[1].alias = <<>>
    /\ pipeline.registry = call.registry_before
    /\ "register_model" \notin Range(call.mlflow_calls)
    /\ "set_registered_model_alias" \notin Range(call.mlflow_calls)

CalledOnSamples(op) ==
    /\ pipeline.step = "statistics"
    /\ last.op = op
    /\ pipeline.reference # <<>>
    /\ pipeline.current # <<>>

\* C21: for non-empty samples compute_psi raises nothing and returns a finite
\* value; every smoothed proportion (count + 1) / (N + n_bins) is strictly
\* positive, and the bin counts of each sample sum to the size of the sample,
\* constant samples (min = max) included.
C21_PsiFinite ==
    CalledOnSamples("compute_psi") =>
        LET bins == PsiBins(pipeline.reference, pipeline.current)
        IN  /\ last.raised = "none"
            /\ last.value # NaN
            /\ \A b \in 1..n_bins :
                   /\ bins.ref_prop[b].num > 0 /\ bins.ref_prop[b].den > 0
                   /\ bins.cur_prop[b].num > 0 /\ bins.cur_prop[b].den > 0
                   /\ bins.ref_prop[b].num = bins.ref_hist[b] + 1
                   /\ bins.cur_prop[b].num = bins.cur_hist[b] + 1
                   /\ bins.ref_prop[b].den = Len(pipeline.reference) + n_bins
                   /\ bins.cur_prop[b].den = Len(pipeline.current) + n_bins
            /\ SumSeq(bins.ref_hist) = Len(pipeline.reference)
            /\ SumSeq(bins.cur_hist) = Len(pipeline.current)

\* Two constant samples with the same value (min = max over both), of
\* different sizes, and a PSI that is not zero.
C21_Witness ==
    /\ CalledOnSamples("compute_psi")
    /\ Len(pipeline.reference) # Len(pipeline.current)
    /\ MinSeq(pipeline.reference \o pipeline.current)
           = MaxSeq(pipeline.reference \o pipeline.current)
    /\ last.raised = "none"
    /\ last.value > 0

\* C22: for non-empty samples compute_jensen_shannon raises nothing and
\* returns a number d with 0 <= d <= sqrt(ln 2), a combined range of zero width
\* included, and d is 0 (up to rounding) when the two samples are identical.
C22_JensenShannonBounded ==
    CalledOnSamples("compute_jensen_shannon") =>
        /\ last.raised = "none"
        /\ last.value # NaN
        /\ 0 <= last.value
        /\ last.value <= FSqrt(Ln2) + 1
        /\ pipeline.reference = pipeline.current => last.value <= 1

\* C23: for non-empty samples compute_chi_squared raises nothing and returns
\* a statistic and a p-value, whatever the sizes of the samples and whether or
\* not they have a category in common.
C23_ChiSquaredNeverRaises ==
    CalledOnSamples("compute_chi_squared") =>
        /\ last.raised = "none"
        /\ Len(last.value) = 2

\* The values of one column that are not missing, whatever the other columns
\* of their rows hold.
OwnValues(data, col) ==
    [dtype  |-> data.dtype[col],
     values |-> SelectSeq(data.values[col], LAMBDA v : v # NA)]

\* A DriftResult without its details.
Scores(result) ==
    [feature      |-> result.feature,
     drift_score  |-> result.drift_score,
     ks_statistic |-> result.ks_statistic,
     ks_pvalue    |-> result.ks_pvalue,
     psi_score    |-> result.psi_score,
     is_drifted   |-> result.is_drifted,
     severity     |-> result.severity]

\* Column g is missing in a row where column f is not.
MissingBeside(data, f, g) ==
    /\ HasColumn(data, f) /\ HasColumn(data, g)
    /\ \E i \in 1..Len(data.values[f]) : data.values[f][i] # NA /\ data.values[g][i] = NA

\* C24: missing values are dropped per column.  After set_reference_data the
\* profile entry of every column of the dataset is computed from all the
\* non-missing values of that column; every result of a report is computed
\* from all the non-missing values of the feature's reference column and of
\* its current column (so the samples of a column are as many as its own
\* non-missing values), also for rows in which another column is missing.
C24_DropPerColumn ==
    /\ (last.op = "set_reference_data" /\ last.raised = "none") =>
           \A i \in 1..Len(last.data.columns) :
               LET col   == last.data.columns[i]
                   entry == DictGet(reference_stats, col)
                   own   == OwnValues(last.data, col)
               IN  /\ entry # <<>>
                   /\ entry[1] = ColumnStatistics(own,
                                     IF entry[1].type = "categorical"
                                     THEN entry[1].categories ELSE 0)
                   /\ entry[1].type = "numeric" =>
                          SumSeq(entry[1].histogram.counts) = Len(own.values)
    /\ Reported =>
           /\ Len(last.used) = Len(last.report.feature_results)
           /\ \A k \in 1..Len(last.report.feature_results) :
                  LET result == last.report.feature_results[k]
                      f      == result.feature
                      own    == _analyze_feature(last.used[k].ref_stats, f,
                                                 OwnValues(last.reference[1], f),
                                                 OwnValues(last.data, f), 0)
                  IN  /\ last.used[k].feature = f
                      /\ last.used[k].reference = OwnValues(last.reference[1], f)
                      /\ own.raised = "none"
                      /\ Scores(own.result) = Scores(result)

\* A report with the results of two features, each missing in a row where the
\* other is not, in the reference dataset and in the current one.
C24_Witness ==
    /\ Reported
    /\ \E f, g \in Range(Features(last.report.feature_results)) :
           /\ MissingBeside(last.reference[1], f, g)
           /\ MissingBeside(last.reference[1], g, f)
           /\ MissingBeside(last.data, f, g)
           /\ MissingBeside(last.data, g, f)
           /\ DictGet(reference_stats, f) # <<>>
           /\ DictGet(reference_stats, f)[1].type = "categorical"
           /\ DictGet(reference_stats, g)[1].type = "numeric"

\* The results of the last report whose profile entry has the given type.
ResultsOfType(type) ==
    {k \in 1..Len(last.report.feature_results) :
        last.used[k].ref_stats # <<>> /\ last.used[k].ref_stats[1].type = type}

\* C25: the result of a feature whose profile type is categorical has
\* psi_score 0, the chi-squared p-value as ks_pvalue, chi_stat / (chi_stat +
\* number of reference values) as ks_statistic, and drift_score 1 - p when
\* p > 0 and 1 when p = 0; its drift_score lies in [0, 1].
C25_CategoricalResult ==
    Reported =>
        \A k \in ResultsOfType("categorical") :
            LET r   == last.report.feature_results[k]
                ref == last.used[k].reference.values
                cur == SelectSeq(last.data.values[r.feature], LAMBDA v : v # NA)
                chi == compute_chi_squared(ref, cur)
            IN  /\ chi.raised = "none"
                /\ r.psi_score = 0
                /\ r.ks_pvalue = chi.pvalue
                /\ r.ks_statistic
                       = (chi.statistic * Scale) \div (chi.statistic + Len(ref) * Scale)
                /\ FGt(chi.pvalue, 0) => r.drift_score = Scale - chi.pvalue
                /\ chi.pvalue = 0 => r.drift_score = Scale
                /\ 0 <= r.drift_score /\ r.drift_score <= Scale

\* A report with a categorical result of p-value strictly between 0 and 1
\* and a statistic above 0, after a report with a categorical result that has
\* the p-value 0 and the score 1.
C25_Witness ==
    /\ Reported
    /\ \E k \in ResultsOfType("categorical") :
           LET r == last.report.feature_results[k]
           IN  /\ FGt(r.ks_pvalue, 0) /\ r.ks_pvalue < Scale
               /\ r.drift_score = Scale - r.ks_pvalue
               /\ r.ks_statistic > 0
    /\ \E r \in AllResults :
           /\ "chi_squared_pvalue" \in DOMAIN r.details
           /\ r.ks_pvalue = 0
           /\ r.drift_score = Scale

\* The reports returned so far whose recommendation has one of the tiers.
ReportsOfTier(tiers) ==
    {k \in 1..Len(returned) : returned[k].recommendation.tier \in tiers}

\* C27 as stated: every report with a CRITICAL or WARNING recommendation has
\* features_drifted >= 1.
C27_AlertImpliesDrifted ==
    \A k \in ReportsOfTier({"CRITICAL", "WARNING"}) : returned[k].features_drifted >= 1

\* C27, for the reports with a result: a CRITICAL or WARNING recommendation
\* implies features_drifted >= 1.  A report without results has the overall
\* score 0.0, and the OK recommendation exactly when that is below both
\* thresholds that are numbers.
C27_AlertImpliesDriftedOrEmpty ==
    /\ \A k \in ReportsOfTier({"CRITICAL", "WARNING"}) :
           returned[k].features_analyzed >= 1 => returned[k].features_drifted >= 1
    /\ \A k \in 1..Len(returned) :
           returned[k].features_analyzed = 0 =>
               /\ returned[k].overall_drift_score = 0
               /\ returned[k].features_drifted = 0
               /\ returned[k].recommendation.tier = "OK"
                      <=> ~FGe(0, config.drift_threshold) /\ ~FGe(0, config.warning_threshold)

\* A report with the OK recommendation although one of its features is
\* drifted, and a WARNING report with a drifted feature.
C27_Witness ==
    /\ \E k \in ReportsOfTier({"OK"}) :
           /\ returned[k].features_drifted >= 1
           /\ returned[k].features_analyzed >= 2
    /\ \E k \in ReportsOfTier({"CRITICAL", "WARNING"}) : returned[k].features_drifted >= 1

\* A report without its timestamp.
Untimed(report) == [report EXCEPT !.timestamp = 0]

\* Two detect_drift calls were given the same dataset under the same
\* reference and profile.
SameCall(a, b) ==
    /\ a.data = b.data
    /\ a.reference = b.reference
    /\ a.profile = b.profile

ReportContent(report, hp) ==
    [Untimed(report) EXCEPT !.feature_results =
        [i \in 1..Len(report.feature_results) |->
            IF "reference_categories" \in DOMAIN report.feature_results[i].details
            THEN [report.feature_results[i] EXCEPT
                     !.details.reference_categories = hp[@]]
            ELSE report.feature_results[i]]]

\* What detect_drift(current_data) does on a detector of this configuration
\* on which set_reference_data(data) was called and nothing else.
FreshOutcome(data, current_data) ==
    LET fresh == set_reference_data(data, <<>>, <<>>)
        acc   == detect_drift(fresh.reference_data, fresh.reference_stats, fresh.heap,
                              NoMetrics, current_data)
    IN  IF acc.raised # "none" THEN [raised |-> acc.raised]
        ELSE [raised |-> "none", report |-> ReportContent(DriftReport(acc, 0), acc.heap)]

\* C28: whatever set_reference_data calls were made before the last one, a
\* detect_drift call ends as it does on a fresh detector of the same
\* configuration that was given the last reference dataset only: with the
\* same report, timestamp aside, or by raising as well.
C28_HistoryFree ==
    (last.op = "detect_drift" /\ last.reference # <<>>) =>
        LET fresh == FreshOutcome(last.reference[1], last.data)
        IN  /\ fresh.raised = last.raised
            /\ last.raised = "none" => fresh.report = ReportContent(last.report, heap)

\* C29: a set_reference_data call that raises leaves the stored reference
\* dataset and the reference profile as they were before the call.
C29_SetReferenceAllOrNothing ==
    [][(calls' = calls + 1 /\ last'.op = "set_reference_data" /\ last'.raised # "none")
          => /\ reference_data' = reference_data
             /\ reference_stats' = reference_stats
             /\ heap' = heap]_vars

\* C30: a detect_drift call that raises has changed no gauge and no
\* drift-detected counter, and has returned no report.
C30_DetectAllOrNothing ==
    [][(calls' = calls + 1 /\ last'.op = "detect_drift" /\ last'.raised # "none")
          => /\ metrics' = metrics
             /\ returned' = returned]_vars

====
